---- MODULE Spec2Model ----
(***************************************************************************)
(* The curation state machine of spanish-flashcard-builder: the two-level  *)
(* cursor of pipeline/curate/state.py (State), the accept / reject / undo  *)
(* / quit commands of components/vocab_selector/commands.py, the Bank of   *)
(* pipeline/curate/vocab_bank.py and the driver loop of                    *)
(* components/vocab_selector/__main__.py.                                  *)
(*                                                                         *)
(* Indices are 0-based as in the Python source; headwords[i + 1] is the    *)
(* element the source writes self._headwords[i].                           *)
(***************************************************************************)
EXTENDS Integers, Sequences, FiniteSets, TLC

VARIABLES
    sanitized_vocab,       \* the word list file: a sequence of lines
    headwords,             \* State._headwords: the sanitized word list
    mw,                    \* look_up: headword -> number of entries (0 = None,
                           \* Raises = the call raises)
    headword_index,        \* _StateData.headword_index
    entry_index,           \* _StateData.entry_index
    headword_entry_count,  \* _StateData.headword_entry_count
    lookup_cache,          \* State._lookup_cache (the headwords it holds)
    lookups,               \* calls of look_up in this process, per headword
    curator_history,       \* the checkpoint file: <<>> absent, <<record>> present
    bank,                  \* VocabBank: ids of the entry directories on disk
    pc,                    \* position of the process
    presented,             \* the entry handle_command_input is showing
    raised,                \* the last call on the State object raised CurationError
    last_cmd,              \* journal: the last command executed
    before,                \* journal: cursor and Bank when that command was issued
    resumed_from,          \* how the previous process ended, until a command runs
    committed,             \* commit_entry() was called in this process
    decisions              \* journal: entry id -> the last decision on it

vars == <<sanitized_vocab, headwords, mw, headword_index, entry_index, headword_entry_count,
          lookup_cache, lookups, curator_history, bank, pc, presented, raised,
          last_cmd, before, resumed_from, committed, decisions>>

env == <<sanitized_vocab, headwords, mw>>

(***************************************************************************)
(* Bounds.                                                                 *)
(***************************************************************************)
MaxWords == 3        \* longest word list
MaxEntries == 2      \* most entries a lookup returns
MaxOverrun == 2      \* commit_entry() calls allowed past the end of a term
MaxTotal == 3        \* most entries in the whole word list
MaxLookups == 2      \* the count of look_up calls per headword stops here
MaxLines == 2        \* most lines of a word list file read piece by piece
MaxLineLen == 3      \* most pieces of such a line
MaxCalls == 3        \* longest run of commit_entry() calls that is undone

\* The headwords of the model, in the order the word list has them.
WordNames == <<"ser", "haber", "mesa", "casa", "libro", "hablar">>

Words == {WordNames[i] : i \in DOMAIN WordNames}

Range(s) == {s[i] : i \in DOMAIN s}

\* The word lists sanitize.py writes: one line per lemma, no word twice.
\* The cursor uses a headword only as a key, so lists of the same length
\* differ only in what the lookups return: one list per length.
WordLists == {SubSeq(WordNames, 1, n) : n \in 0..MaxWords}

(***************************************************************************)
(* Values.                                                                 *)
(***************************************************************************)
EmptyCount == [w \in {} |-> 0]

\* The one element of a set of one element.  A loop of the source is a
\* recursion here, and the next turn of the loop takes the object as the
\* turn before left it: {Op(again) : again \in {object}} hands Op that
\* object as a value.
Value(single) == CHOOSE v \in single : TRUE

\* dict.get(word, 0)
Get(count, word) == IF word \in DOMAIN count THEN count[word] ELSE 0

\* DictionaryEntry.id of the entry at index i of the term for word:
\* "ser:1" is the entry at index 0 of "ser".
EntryId(word, i) == <<word, i + 1>>

\* No look_up call has been made.
\* No entry has been decided.
NoDecisions == [id \in {} |-> ""]

NoLookups == [w \in Words |-> 0]

\* _StateData(): headword_index 0, entry_index 0, empty count map; the
\* lookup cache of a new State is empty and it has looked nothing up.
_StateData ==
    [headword_index |-> 0, entry_index |-> 0,
     headword_entry_count |-> EmptyCount, lookup_cache |-> {},
     lookups |-> NoLookups]

\* The State object as a record, for the operators below.
Self ==
    [headword_index |-> headword_index, entry_index |-> entry_index,
     headword_entry_count |-> headword_entry_count,
     lookup_cache |-> lookup_cache, lookups |-> lookups]

\* The outcome of a look_up call that raises.
Raises == -1

\* look_up(word): a DictionaryTerm with mw[word] entries, None when there
\* are none, Raises when the call raises.
look_up(word) == mw[word]

(***************************************************************************)
(* State: the cursor.  Every operator takes the object and returns the     *)
(* object it leaves, with the value it returns or the fact that it raised. *)
(***************************************************************************)

\* self._headwords[self._data.headword_index]; a negative index counts from
\* the end of the list, an index outside -len..len-1 raises CurationError.
_current_word(self) ==
    LET i == self.headword_index
        n == Len(headwords)
    IN  IF 0 <= i /\ i < n THEN [raised |-> FALSE, word |-> headwords[i + 1]]
        ELSE IF -n <= i /\ i < 0
             THEN [raised |-> FALSE, word |-> headwords[n + i + 1]]
             ELSE [raised |-> TRUE, word |-> ""]

\* Mutant of _get_term_for_headword: a look_up that raised or found nothing
\* is cached as well, and counted as a term.
_get_term_for_headword_caches_all(self, word) ==
    IF word \in self.lookup_cache
    THEN [self |-> self, term |-> TRUE]
    ELSE LET called == [self EXCEPT
                          !.lookups[word] =
                              IF @ < MaxLookups THEN @ + 1 ELSE @]
             term == look_up(word)
         IN  [self |-> [called EXCEPT
                          !.lookup_cache = @ \cup {word},
                          !.headword_entry_count = (word :> term) @@ @],
              term |-> TRUE]

\* Mutant of _get_term_for_headword: the count map is replaced by the
\* count of the headword that was looked up.
_get_term_for_headword_resets_counts(self, word) ==
    IF word \in self.lookup_cache
    THEN [self |-> self, term |-> TRUE]
    ELSE LET called == [self EXCEPT
                          !.lookups[word] =
                              IF @ < MaxLookups THEN @ + 1 ELSE @]
             term == look_up(word)
         IN  IF term = Raises
             THEN [self |-> called, term |-> FALSE]
             ELSE IF term > 0
                  THEN [self |-> [called EXCEPT
                                    !.lookup_cache = @ \cup {word},
                                    !.headword_entry_count = (word :> term)],
                        term |-> TRUE]
                  ELSE [self |-> called, term |-> FALSE]

\* Mutant of _get_term_for_headword: a look_up that found nothing writes
\* the count 0.
_get_term_for_headword_counts_none(self, word) ==
    IF word \in self.lookup_cache
    THEN [self |-> self, term |-> TRUE]
    ELSE LET called == [self EXCEPT
                          !.lookups[word] =
                              IF @ < MaxLookups THEN @ + 1 ELSE @]
             term == look_up(word)
         IN  IF term = Raises
             THEN [self |-> called, term |-> FALSE]
             ELSE IF term > 0
                  THEN [self |-> [called EXCEPT
                                    !.lookup_cache = @ \cup {word},
                                    !.headword_entry_count =
                                        (word :> term) @@ @],
                        term |-> TRUE]
                  ELSE [self |-> [called EXCEPT
                                    !.headword_entry_count =
                                        (word :> 0) @@ @],
                        term |-> FALSE]

\* _get_term_for_headword(word): the cached term if there is one; otherwise
\* look_up(word) is called, and a term with entries is cached and counted.
\* A look_up that raises is caught and logged, and like one that finds
\* nothing it returns None and is not cached.
_get_term_for_headword(self, word) ==
    IF word \in self.lookup_cache
    THEN [self |-> self, term |-> TRUE]
    ELSE LET called == [self EXCEPT
                          !.lookups[word] =
                              IF @ < MaxLookups THEN @ + 1 ELSE @]
             term == look_up(word)
         IN  IF term = Raises
             THEN [self |-> called, term |-> FALSE]
             ELSE IF term > 0
                  THEN [self |-> [called EXCEPT
                                    !.lookup_cache = @ \cup {word},
                                    !.headword_entry_count =
                                        (word :> term) @@ @],
                        term |-> TRUE]
                  ELSE [self |-> called, term |-> FALSE]

\* Mutant of _advance_headword: stops on the first headword in range,
\* whether or not it has entries.
_advance_headword_no_skip(self, step) ==
    LET new_index == self.headword_index + step IN
    IF ~(0 <= new_index /\ new_index < Len(headwords))
    THEN [self |-> self, ret |-> FALSE]
    ELSE LET moved == [self EXCEPT !.headword_index = new_index,
                                   !.entry_index = 0]
             got == _get_term_for_headword(moved, _current_word(moved).word)
         IN  [self |-> got.self, ret |-> TRUE]

\* Mutant of _advance_headword: the index is moved before the range is
\* tested.
RECURSIVE _advance_headword_moves_first(_, _)
_advance_headword_moves_first(self, step) ==
    LET new_index == self.headword_index + step
        moved == [self EXCEPT !.headword_index = new_index,
                              !.entry_index = 0]
    IN
    IF ~(0 <= new_index /\ new_index < Len(headwords))
    THEN [self |-> moved, ret |-> FALSE]
    ELSE LET got == _get_term_for_headword(moved, _current_word(moved).word)
         IN  IF got.term THEN [self |-> got.self, ret |-> TRUE]
             ELSE Value({_advance_headword_moves_first(again, step) :
                           again \in {got.self}})

RECURSIVE _advance_headword(_, _)
_advance_headword(self, step) ==
    LET new_index == self.headword_index + step IN
    IF ~(0 <= new_index /\ new_index < Len(headwords))
    THEN [self |-> self, ret |-> FALSE]
    ELSE LET moved == [self EXCEPT !.headword_index = new_index,
                                   !.entry_index = 0]
             got == _get_term_for_headword(moved, _current_word(moved).word)
         IN  IF got.term THEN [self |-> got.self, ret |-> TRUE]
             ELSE Value({_advance_headword(again, step) :
                           again \in {got.self}})

_go_to_next_headword(self) == _advance_headword(self, 1)

_go_to_previous_headword(self) == _advance_headword(self, -1)

RECURSIVE current_term(_)
current_term(self) ==
    LET cw == _current_word(self) IN
    IF cw.raised THEN [self |-> self, raised |-> TRUE, headword |-> ""]
    ELSE LET got == _get_term_for_headword(self, cw.word) IN
         IF got.term
         THEN [self |-> got.self, raised |-> FALSE, headword |-> cw.word]
         ELSE LET nxt == _go_to_next_headword(got.self) IN
              IF nxt.ret
              THEN Value({current_term(again) : again \in {nxt.self}})
              ELSE [self |-> nxt.self, raised |-> TRUE, headword |-> ""]

\* Mutant of current_entry: the entries are taken from the end of the
\* term.
current_entry_reversed(self) ==
    LET t == current_term(self) IN
    IF t.raised THEN [self |-> t.self, raised |-> TRUE, id |-> <<>>]
    ELSE LET n == look_up(t.headword)
             i == t.self.entry_index
         IN  IF 0 <= i /\ i < n
             THEN [self |-> t.self, raised |-> FALSE,
                   id |-> EntryId(t.headword, n - 1 - i)]
             ELSE IF -n <= i /\ i < 0
                  THEN [self |-> t.self, raised |-> FALSE,
                        id |-> EntryId(t.headword, -1 - i)]
                  ELSE [self |-> t.self, raised |-> TRUE, id |-> <<>>]

\* term.entries[self._data.entry_index]; a negative index counts from the
\* end of the entries, an index outside -len..len-1 raises CurationError.
current_entry(self) ==
    LET t == current_term(self) IN
    IF t.raised THEN [self |-> t.self, raised |-> TRUE, id |-> <<>>]
    ELSE LET n == look_up(t.headword)
             i == t.self.entry_index
         IN  IF 0 <= i /\ i < n
             THEN [self |-> t.self, raised |-> FALSE,
                   id |-> EntryId(t.headword, i)]
             ELSE IF -n <= i /\ i < 0
                  THEN [self |-> t.self, raised |-> FALSE,
                        id |-> EntryId(t.headword, n + i)]
                  ELSE [self |-> t.self, raised |-> TRUE, id |-> <<>>]

\* The names of the fields of _StateData.
StateDataFields == {"headword_index", "entry_index", "headword_entry_count"}

\* json.dump of a Dict[str, int]: a JSON object, the set of its
\* <<name, number>> members.
JsonObject(dict) == {<<w, dict[w]>> : w \in DOMAIN dict}

\* json.load of a JSON object: the dict that maps each name to its value.
JsonDict(members) ==
    [w \in {m[1] : m \in members} |->
        (CHOOSE m \in members : m[1] = w)[2]]

\* json.dump(self._data.__dict__): the file holds JSON text whose top-level
\* object has the three fields of _StateData.
_save_history(self) ==
    <<[valid_json |-> TRUE,
       object |-> [headword_index |-> self.headword_index,
                   entry_index |-> self.entry_index,
                   headword_entry_count |->
                       JsonObject(self.headword_entry_count)]]>>

\* Mutant of _load_history: the count map of the file is not taken.
_load_history_no_counts(self, file) ==
    IF file = <<>> THEN self
    ELSE LET doc == file[1] IN
         IF ~doc.valid_json \/ ~(DOMAIN doc.object \subseteq StateDataFields)
         THEN self
         ELSE [self EXCEPT
                 !.headword_index =
                     IF "headword_index" \in DOMAIN doc.object
                     THEN doc.object.headword_index
                     ELSE _StateData.headword_index,
                 !.entry_index =
                     IF "entry_index" \in DOMAIN doc.object
                     THEN doc.object.entry_index
                     ELSE _StateData.entry_index,
                 !.headword_entry_count = _StateData.headword_entry_count]

\* Mutant of _load_history: a file with an unknown key is not refused, the
\* fields it does have are taken.
_load_history_partial(self, file) ==
    IF file = <<>> THEN self
    ELSE LET doc == file[1] IN
         IF ~doc.valid_json
         THEN self
         ELSE [self EXCEPT
                 !.headword_index =
                     IF "headword_index" \in DOMAIN doc.object
                     THEN doc.object.headword_index
                     ELSE _StateData.headword_index,
                 !.entry_index =
                     IF "entry_index" \in DOMAIN doc.object
                     THEN doc.object.entry_index
                     ELSE _StateData.entry_index,
                 !.headword_entry_count =
                     IF "headword_entry_count" \in DOMAIN doc.object
                     THEN JsonDict(doc.object.headword_entry_count)
                     ELSE _StateData.headword_entry_count]

\* _load_history(): nothing when the file is absent; otherwise
\* _StateData(**json.load(f)), where json.load raises on text that is not
\* JSON and _StateData raises on a key that is not one of its fields (both
\* are caught and logged, self._data stays the default), and a field the
\* object lacks takes its default.
_load_history(self, file) ==
    IF file = <<>> THEN self
    ELSE LET doc == file[1] IN
         IF ~doc.valid_json \/ ~(DOMAIN doc.object \subseteq StateDataFields)
         THEN self
         ELSE [self EXCEPT
                 !.headword_index =
                     IF "headword_index" \in DOMAIN doc.object
                     THEN doc.object.headword_index
                     ELSE _StateData.headword_index,
                 !.entry_index =
                     IF "entry_index" \in DOMAIN doc.object
                     THEN doc.object.entry_index
                     ELSE _StateData.entry_index,
                 !.headword_entry_count =
                     IF "headword_entry_count" \in DOMAIN doc.object
                     THEN JsonDict(doc.object.headword_entry_count)
                     ELSE _StateData.headword_entry_count]

\* Mutant of commit_entry: the checkpoint is not written.
commit_entry_no_save(self, file) ==
    LET bumped == [self EXCEPT !.entry_index = @ + 1]
        t == current_term(bumped)
    IN  IF t.raised THEN [self |-> t.self, file |-> file, raised |-> TRUE]
        ELSE LET entry_count == Get(t.self.headword_entry_count, t.headword)
                 after == IF t.self.entry_index >= entry_count
                          THEN _go_to_next_headword(t.self).self
                          ELSE t.self
             IN  [self |-> after, file |-> file, raised |-> FALSE]

\* Mutant of commit_entry: the entry index is not incremented.
commit_entry_stays(self, file) ==
    LET bumped == self
        t == current_term(bumped)
    IN  IF t.raised THEN [self |-> t.self, file |-> file, raised |-> TRUE]
        ELSE LET entry_count == Get(t.self.headword_entry_count, t.headword)
                 after == IF t.self.entry_index >= entry_count
                          THEN _go_to_next_headword(t.self).self
                          ELSE t.self
             IN  [self |-> after, file |-> _save_history(after),
                  raised |-> FALSE]

\* commit_entry(): the object it leaves, the checkpoint file it leaves, and
\* whether current_term() raised before the save.
commit_entry(self, file) ==
    LET bumped == [self EXCEPT !.entry_index = @ + 1]
        t == current_term(bumped)
    IN  IF t.raised THEN [self |-> t.self, file |-> file, raised |-> TRUE]
        ELSE LET entry_count == Get(t.self.headword_entry_count, t.headword)
                 after == IF t.self.entry_index >= entry_count
                          THEN _go_to_next_headword(t.self).self
                          ELSE t.self
             IN  [self |-> after, file |-> _save_history(after),
                  raised |-> FALSE]

\* Mutant of undo: crossing back lands on the first entry of the
\* previous headword instead of its last.
undo_lands_on_first(self, file) ==
    IF self.entry_index > 0
    THEN LET after == [self EXCEPT !.entry_index = @ - 1]
         IN  [self |-> after, file |-> _save_history(after), raised |-> FALSE]
    ELSE LET prev == IF self.headword_index > 0
                     THEN _go_to_previous_headword(self)
                     ELSE [self |-> self, ret |-> FALSE]
         IN  IF prev.ret
             THEN LET t == current_term(prev.self)
                      count == Get(t.self.headword_entry_count, t.headword)
                      last == 0
                      after == [t.self EXCEPT !.entry_index = last]
                  IN  [self |-> after, file |-> _save_history(after),
                       raised |-> FALSE]
             ELSE [self |-> prev.self, file |-> file, raised |-> FALSE]

\* Mutant of undo: inside a headword the index is saved but not
\* decremented.
undo_keeps_index(self, file) ==
    IF self.entry_index > 0
    THEN LET after == self
         IN  [self |-> after, file |-> _save_history(after), raised |-> FALSE]
    ELSE LET prev == IF self.headword_index > 0
                     THEN _go_to_previous_headword(self)
                     ELSE [self |-> self, ret |-> FALSE]
         IN  IF prev.ret
             THEN LET t == current_term(prev.self)
                      count == Get(t.self.headword_entry_count, t.headword)
                      last == IF count - 1 > 0 THEN count - 1 ELSE 0
                      after == [t.self EXCEPT !.entry_index = last]
                  IN  [self |-> after, file |-> _save_history(after),
                       raised |-> FALSE]
             ELSE [self |-> prev.self, file |-> file, raised |-> FALSE]

\* Mutant of undo: the guard is entry_index >= 0, so the index is
\* decremented on the first entry too.
undo_below_zero(self, file) ==
    IF self.entry_index >= 0
    THEN LET after == [self EXCEPT !.entry_index = @ - 1]
         IN  [self |-> after, file |-> _save_history(after), raised |-> FALSE]
    ELSE LET prev == IF self.headword_index > 0
                     THEN _go_to_previous_headword(self)
                     ELSE [self |-> self, ret |-> FALSE]
         IN  IF prev.ret
             THEN LET t == current_term(prev.self)
                      count == Get(t.self.headword_entry_count, t.headword)
                      last == IF count - 1 > 0 THEN count - 1 ELSE 0
                      after == [t.self EXCEPT !.entry_index = last]
                  IN  [self |-> after, file |-> _save_history(after),
                       raised |-> FALSE]
             ELSE [self |-> prev.self, file |-> file, raised |-> FALSE]

\* Mutant of undo: the first entry of a headword is never left.
undo_stays_in_headword(self, file) ==
    IF self.entry_index > 0
    THEN LET after == [self EXCEPT !.entry_index = @ - 1]
         IN  [self |-> after, file |-> _save_history(after), raised |-> FALSE]
    ELSE [self |-> self, file |-> file, raised |-> FALSE]

undo(self, file) ==
    IF self.entry_index > 0
    THEN LET after == [self EXCEPT !.entry_index = @ - 1]
         IN  [self |-> after, file |-> _save_history(after), raised |-> FALSE]
    ELSE LET prev == IF self.headword_index > 0
                     THEN _go_to_previous_headword(self)
                     ELSE [self |-> self, ret |-> FALSE]
         IN  IF prev.ret
             THEN LET t == current_term(prev.self) IN
                  IF t.raised
                  THEN [self |-> t.self, file |-> file, raised |-> TRUE]
                  ELSE LET count == Get(t.self.headword_entry_count,
                                        t.headword)
                           last == IF count - 1 > 0 THEN count - 1 ELSE 0
                           after == [t.self EXCEPT !.entry_index = last]
                       IN  [self |-> after, file |-> _save_history(after),
                            raised |-> FALSE]
             ELSE [self |-> prev.self, file |-> file, raised |-> FALSE]

\* Mutant of _ensure_valid_state: the end of the list is not an error.
RECURSIVE _ensure_valid_state_no_raise(_)
_ensure_valid_state_no_raise(self) ==
    LET cw == _current_word(self) IN
    IF cw.raised THEN [self |-> self, raised |-> FALSE]
    ELSE LET got == _get_term_for_headword(self, cw.word) IN
         IF got.term THEN [self |-> got.self, raised |-> FALSE]
         ELSE LET nxt == _go_to_next_headword(got.self) IN
              IF nxt.ret
              THEN Value({_ensure_valid_state_no_raise(again) :
                            again \in {nxt.self}})
              ELSE [self |-> nxt.self, raised |-> FALSE]

\* _ensure_valid_state(): CurationError when _current_word() raises it or
\* when no headword from the current one on has entries.
RECURSIVE _ensure_valid_state(_)
_ensure_valid_state(self) ==
    LET cw == _current_word(self) IN
    IF cw.raised THEN [self |-> self, raised |-> TRUE]
    ELSE LET got == _get_term_for_headword(self, cw.word) IN
         IF got.term THEN [self |-> got.self, raised |-> FALSE]
         ELSE LET nxt == _go_to_next_headword(got.self) IN
              IF nxt.ret
              THEN Value({_ensure_valid_state(again) : again \in {nxt.self}})
              ELSE [self |-> nxt.self, raised |-> TRUE]

\* State(): default data, empty cache, the checkpoint if there is one, then
\* the self-correction.
State_init(file) == _ensure_valid_state(_load_history(_StateData, file))

(***************************************************************************)
(* VocabBank.                                                              *)
(***************************************************************************)

\* Mutant of save_entry: nothing is written.
save_entry_nothing(dirs, id) == dirs

\* Mutant of delete_entry: the directory is left in place.
delete_entry_keeps(dirs, id) == dirs

\* save_entry(entry): the entry directory exists afterwards (makedirs with
\* exist_ok, the file is overwritten).
save_entry(dirs, id) == dirs \cup {id}

\* delete_entry(entry_id): rmtree when the directory exists, a warning
\* otherwise.
delete_entry(dirs, id) == IF id \in dirs THEN dirs \ {id} ELSE dirs

(***************************************************************************)
(* The environment: a word list and the lookup results, fixed for the run. *)
(***************************************************************************)
\* The number of entries the lookups return for the whole list.
RECURSIVE TotalEntries(_)
TotalEntries(list) ==
    IF list = <<>> THEN 0
    ELSE (IF mw[Head(list)] > 0 THEN mw[Head(list)] ELSE 0)
         + TotalEntries(Tail(list))

InitEnv ==
    /\ headwords \in WordLists
    \* sanitize.py writes one lemma per line and nothing else
    /\ sanitized_vocab = [i \in DOMAIN headwords |-> <<headwords[i]>>]
    /\ mw \in [Words -> Raises..MaxEntries]
    \* words that are not on the list are never looked up
    /\ \A w \in Words \ Range(headwords) : mw[w] = 0
    /\ TotalEntries(headwords) <= MaxTotal

\* The cursor and the Bank as a command finds them.
Snapshot ==
    [headword_index |-> headword_index, entry_index |-> entry_index,
     bank |-> bank, last_cmd |-> last_cmd]

SetSelf(self) ==
    /\ headword_index' = self.headword_index
    /\ entry_index' = self.entry_index
    /\ headword_entry_count' = self.headword_entry_count
    /\ lookup_cache' = self.lookup_cache
    /\ lookups' = self.lookups

(***************************************************************************)
(* The driver: main() of components/vocab_selector/__main__.py.            *)
(*   pc = "present"  about to evaluate state.current_entry()               *)
(*   pc = "prompt"   handle_command_input is blocked in get_key_press()    *)
(*   pc = "reprompt" the same, after "Invalid input" was printed           *)
(*   pc = "crashed"  a CurationError left main()                           *)
(*   pc = "exited"   sys.exit(0)                                           *)
(*   pc = "killed"   the process was killed                                *)
(***************************************************************************)

\* The positions in which the process waits for a key.
Waiting == {"prompt", "reprompt"}

\* A first run: no checkpoint file, an empty Bank, State() constructed.
Init ==
    /\ InitEnv
    /\ LET made == State_init(<<>>) IN
       /\ headword_index = made.self.headword_index
       /\ entry_index = made.self.entry_index
       /\ headword_entry_count = made.self.headword_entry_count
       /\ lookup_cache = made.self.lookup_cache
       /\ lookups = made.self.lookups
       /\ raised = made.raised
       /\ pc = IF made.raised THEN "crashed" ELSE "present"
    /\ curator_history = <<>>
    /\ bank = {}
    /\ presented = <<>>
    /\ last_cmd = "none"
    /\ before = [headword_index |-> 0, entry_index |-> 0, bank |-> {},
                 last_cmd |-> "none"]
    /\ resumed_from = "none"
    /\ committed = FALSE
    /\ decisions = NoDecisions

\* The head of the loop: state.current_entry(), state.current_term(), then
\* the prompt.  A CurationError leaves the with block, whose __exit__ saves
\* the checkpoint.
Present ==
    /\ pc = "present"
    /\ LET shown == current_entry(Self) IN
       /\ SetSelf(shown.self)
       /\ raised' = shown.raised
       /\ IF shown.raised
          THEN /\ pc' = "crashed"
               /\ curator_history' = _save_history(shown.self)
               /\ presented' = <<>>
          ELSE /\ pc' = "prompt"
               /\ curator_history' = curator_history
               /\ presented' = <<[headword_index |-> shown.self.headword_index,
                                  entry_index |-> shown.self.entry_index,
                                  id |-> shown.id]>>
    /\ UNCHANGED <<env, decisions, bank, last_cmd, before, resumed_from, committed>>

\* The part every command shares: the journal, and what a CurationError
\* that leaves execute() does to the process.
Executed(cmd, self, file, failed) ==
    /\ SetSelf(self)
    /\ raised' = failed
    /\ pc' = IF failed THEN "crashed" ELSE "present"
    /\ curator_history' = IF failed THEN _save_history(self) ELSE file
    /\ last_cmd' = cmd
    /\ before' = Snapshot
    /\ resumed_from' = "none"
    /\ UNCHANGED <<env, presented>>

\* AcceptCommand.execute; journal says whether the decision is written
\* down.
Accept(journal) ==
    /\ pc \in Waiting
    /\ bank' = save_entry(bank, presented[1].id)
    /\ \E done \in {commit_entry(Self, curator_history)} :
          Executed("accept", done.self, done.file, done.raised)
    /\ committed' = TRUE
    /\ decisions' = IF journal
                    THEN (presented[1].id :> "accept") @@ decisions
                    ELSE decisions

AcceptCommand == Accept(FALSE)

\* RejectCommand.execute; journal says whether the decision is written
\* down.
Reject(journal) ==
    /\ pc \in Waiting
    /\ bank' = bank
    /\ \E done \in {commit_entry(Self, curator_history)} :
          Executed("reject", done.self, done.file, done.raised)
    /\ committed' = TRUE
    /\ decisions' = IF journal
                    THEN (presented[1].id :> "reject") @@ decisions
                    ELSE decisions

RejectCommand == Reject(FALSE)

\* Mutant of UndoCommand: the entry deleted is the one that was on the
\* screen, not the one the cursor went back to.
UndoCommand_deletes_shown ==
    /\ pc \in Waiting
    /\ LET back == undo(Self, curator_history)
           cur == current_entry(back.self)
       IN  IF back.raised
           THEN /\ bank' = bank
                /\ Executed("undo", back.self, back.file, TRUE)
           ELSE /\ bank' = IF cur.raised THEN bank
                           ELSE delete_entry(bank, presented[1].id)
                /\ Executed("undo", cur.self, back.file, cur.raised)
    /\ committed' = committed
    /\ decisions' = decisions

\* UndoCommand.execute
UndoCommand ==
    /\ pc \in Waiting
    /\ LET back == undo(Self, curator_history)
           cur == current_entry(back.self)
       IN  IF back.raised
           THEN /\ bank' = bank
                /\ Executed("undo", back.self, back.file, TRUE)
           ELSE /\ bank' = IF cur.raised THEN bank
                           ELSE delete_entry(bank, cur.id)
                /\ Executed("undo", cur.self, back.file, cur.raised)
    /\ committed' = committed
    /\ decisions' = decisions

\* Mutant of QuitCommand: the process ends without the save of __exit__.
QuitCommand_no_save ==
    /\ pc \in Waiting
    /\ pc' = "exited"
    /\ curator_history' = curator_history
    /\ last_cmd' = "quit"
    /\ before' = Snapshot
    /\ resumed_from' = "none"
    /\ UNCHANGED <<env, decisions, headword_index, entry_index, headword_entry_count,
                   lookup_cache, lookups, bank, presented, raised,
                   committed>>

\* QuitCommand.execute: sys.exit(0) leaves the with block, whose __exit__
\* saves the checkpoint.
QuitCommand ==
    /\ pc \in Waiting
    /\ pc' = "exited"
    /\ curator_history' = _save_history(Self)
    /\ last_cmd' = "quit"
    /\ before' = Snapshot
    /\ resumed_from' = "none"
    /\ UNCHANGED <<env, decisions, headword_index, entry_index, headword_entry_count,
                   lookup_cache, lookups, bank, presented, raised,
                   committed>>

\* Mutant of InvalidKey: the unknown key commits the entry before the
\* prompt is shown again.
InvalidKey_commits ==
    /\ pc \in Waiting
    /\ pc' = "reprompt"
    /\ LET done == commit_entry(Self, curator_history) IN
       /\ SetSelf(done.self)
       /\ curator_history' = done.file
    /\ UNCHANGED <<env, decisions, bank, presented, raised, last_cmd, before,
                   resumed_from, committed>>

\* handle_command_input reads a key that is the key of no command: it
\* prints "Invalid input" and reads the next key, inside the same call.
InvalidKey ==
    /\ pc \in Waiting
    /\ pc' = "reprompt"
    /\ UNCHANGED <<env, decisions, headword_index, entry_index, headword_entry_count,
                   lookup_cache, lookups, curator_history, bank, presented,
                   raised,
                   last_cmd, before, resumed_from, committed>>

\* The process is killed while get_key_press() blocks: nothing runs.
Kill ==
    /\ pc \in Waiting
    /\ pc' = "killed"
    /\ UNCHANGED <<env, decisions, headword_index, entry_index, headword_entry_count,
                   lookup_cache, lookups, curator_history, bank, presented,
                   raised,
                   last_cmd, before, resumed_from, committed>>

\* The program is started again on the same word list, checkpoint file and
\* Bank: main() constructs a new State.
Restart ==
    /\ pc \in {"killed", "exited", "crashed"}
    /\ LET made == State_init(curator_history) IN
       /\ SetSelf(made.self)
       /\ raised' = made.raised
       /\ pc' = IF made.raised THEN "crashed" ELSE "present"
    /\ resumed_from' = pc
    /\ committed' = FALSE
    /\ UNCHANGED <<env, decisions, curator_history, bank, presented, last_cmd, before>>

Next ==
    \/ Present
    \/ AcceptCommand
    \/ RejectCommand
    \/ UndoCommand
    \/ QuitCommand
    \/ InvalidKey
    \/ Kill
    \/ Restart

Spec == Init /\ [][Next]_vars

(***************************************************************************)
(* A first run in which the user answers every prompt with Accept or       *)
(* Reject.  The loop of main() runs on by itself, and the user answers     *)
(* every prompt: both are weakly fair.                                     *)
(***************************************************************************)
NextAcceptReject ==
    \/ Present
    \/ AcceptCommand
    \/ RejectCommand

SpecAcceptReject ==
    /\ Init
    /\ [][NextAcceptReject]_vars
    /\ WF_vars(Present)
    /\ WF_vars(AcceptCommand \/ RejectCommand)

(***************************************************************************)
(* A first run of Accept, Reject and Undo commands in which every decision *)
(* is written down in the journal.                                         *)
(***************************************************************************)
AcceptJournaled == Accept(TRUE)

RejectJournaled == Reject(TRUE)

NextSession ==
    \/ Present
    \/ AcceptJournaled
    \/ RejectJournaled
    \/ UndoCommand

SpecSession == Init /\ [][NextSession]_vars

(***************************************************************************)
(* Sessions in which the process is killed inside an Accept command, and   *)
(* nowhere else.                                                           *)
(* AcceptCommand.execute is three steps, each of which leaves its mark on  *)
(* the disk or in the object before the next one starts:                   *)
(*   save_entry      the entry directory is written to the Bank            *)
(*   commit_entry    the cursor moves, in memory                           *)
(*   _save_history   commit_entry writes the checkpoint file               *)
(*   pc = "accept1"  the first step of the command is done                 *)
(*   pc = "accept2"  the second step of the command is done                *)
(***************************************************************************)
\* A file cut short while it was written: json.load raises.
Truncated(doc) == [doc EXCEPT !.valid_json = FALSE]

\* Mutant of AcceptOrder: the cursor is committed and saved before the
\* entry is written to the Bank.
AcceptOrder_commit_first == <<"commit_entry", "_save_history", "save_entry">>

AcceptOrder == <<"save_entry", "commit_entry", "_save_history">>

\* The process is at step i of the Accept command.
AtStep(i) ==
    CASE i = 1 -> pc \in Waiting
      [] i = 2 -> pc = "accept1"
      [] i = 3 -> pc = "accept2"

AfterStep(i) ==
    CASE i = 1 -> "accept1"
      [] i = 2 -> "accept2"
      [] i = 3 -> "present"

\* What every step of the command does to the journal: the decision is
\* written down when the command starts.
Stepped(i) ==
    /\ decisions' = IF i = 1
                    THEN (presented[1].id :> "accept") @@ decisions
                    ELSE decisions
    /\ last_cmd' = "accept"
    /\ before' = IF i = 1 THEN Snapshot ELSE before
    /\ resumed_from' = "none"

\* self.vocab_bank.save_entry(self.entry)
AcceptSaveEntry ==
    \E i \in DOMAIN AcceptOrder :
        /\ AcceptOrder[i] = "save_entry"
        /\ AtStep(i)
        /\ bank' = save_entry(bank, presented[1].id)
        /\ pc' = AfterStep(i)
        /\ Stepped(i)
        /\ UNCHANGED <<env, headword_index, entry_index,
                       headword_entry_count, lookup_cache, lookups,
                       curator_history, presented, raised, committed>>

\* self.state.commit_entry(), up to its last line: a CurationError leaves
\* the with block, whose __exit__ saves the checkpoint.
AcceptCommitEntry ==
    \E i \in DOMAIN AcceptOrder :
        /\ AcceptOrder[i] = "commit_entry"
        /\ AtStep(i)
        /\ \E done \in {commit_entry(Self, curator_history)} :
              /\ SetSelf(done.self)
              /\ raised' = done.raised
              /\ pc' = IF done.raised THEN "crashed" ELSE AfterStep(i)
              /\ curator_history' = IF done.raised
                                    THEN _save_history(done.self)
                                    ELSE curator_history
        /\ committed' = TRUE
        /\ Stepped(i)
        /\ UNCHANGED <<env, bank, presented>>

\* The last line of commit_entry(): self._save_history()
AcceptSaveHistory ==
    \E i \in DOMAIN AcceptOrder :
        /\ AcceptOrder[i] = "_save_history"
        /\ AtStep(i)
        /\ curator_history' = _save_history(Self)
        /\ pc' = AfterStep(i)
        /\ Stepped(i)
        /\ UNCHANGED <<env, headword_index, entry_index,
                       headword_entry_count, lookup_cache, lookups, bank,
                       presented, raised, committed>>

\* The process is killed between two steps of the command.
KillInAccept ==
    /\ pc \in {"accept1", "accept2"}
    /\ pc' = "killed"
    /\ UNCHANGED <<env, decisions, headword_index, entry_index,
                   headword_entry_count, lookup_cache, lookups,
                   curator_history, bank, presented, raised, last_cmd,
                   before, resumed_from, committed>>

\* The process is killed while _save_history writes: open(..., "w") has
\* emptied the file and json.dump has written a part of the document.
KillInSaveHistory ==
    \E i \in DOMAIN AcceptOrder :
        /\ AcceptOrder[i] = "_save_history"
        /\ AtStep(i)
        /\ curator_history' = <<Truncated(_save_history(Self)[1])>>
        /\ pc' = "killed"
        /\ Stepped(i)
        /\ UNCHANGED <<env, headword_index, entry_index,
                       headword_entry_count, lookup_cache, lookups, bank,
                       presented, raised, committed>>

NextKilledAccept ==
    \/ Present
    \/ AcceptSaveEntry
    \/ AcceptCommitEntry
    \/ AcceptSaveHistory
    \/ RejectJournaled
    \/ UndoCommand
    \/ KillInAccept
    \/ KillInSaveHistory
    \/ Restart

SpecKilledAccept == Init /\ [][NextKilledAccept]_vars

(***************************************************************************)
(* The State object driven directly, call by call.                         *)
(***************************************************************************)
InitCursor ==
    /\ InitEnv
    /\ LET made == State_init(<<>>) IN
       /\ ~made.raised
       /\ headword_index = made.self.headword_index
       /\ entry_index = made.self.entry_index
       /\ headword_entry_count = made.self.headword_entry_count
       /\ lookup_cache = made.self.lookup_cache
       /\ lookups = made.self.lookups
    /\ raised = FALSE
    /\ pc = "object"
    /\ curator_history = <<>>
    /\ bank = {}
    /\ presented = <<>>
    /\ last_cmd = "none"
    /\ before = [headword_index |-> 0, entry_index |-> 0, bank |-> {},
                 last_cmd |-> "none"]
    /\ resumed_from = "none"
    /\ committed = FALSE
    /\ decisions = NoDecisions

Called(call, self, file, failed) ==
    /\ SetSelf(self)
    /\ raised' = failed
    /\ curator_history' = file
    /\ last_cmd' = call
    /\ before' = Snapshot
    /\ committed' = (committed \/ call = "commit_entry")
    /\ UNCHANGED <<env, decisions, bank, pc, presented, resumed_from>>

\* state.commit_entry()
CommitEntry ==
    /\ pc = "object"
    /\ entry_index < MaxEntries + MaxOverrun
    /\ LET done == commit_entry(Self, curator_history) IN
       Called("commit_entry", done.self, done.file, done.raised)

\* state.undo()
UndoEntry ==
    /\ pc = "object"
    /\ LET back == undo(Self, curator_history) IN
       Called("undo", back.self, back.file, back.raised)

\* state.current_entry()
CurrentEntry ==
    /\ pc = "object"
    /\ LET cur == current_entry(Self) IN
       Called("current_entry", cur.self, curator_history, cur.raised)

NextCursor ==
    \/ CommitEntry
    \/ UndoEntry
    \/ CurrentEntry

SpecCursor == InitCursor /\ [][NextCursor]_vars

(***************************************************************************)
(* A process started on a checkpoint file that an earlier session, or      *)
(* something else, left behind.                                            *)
(*   pc = "start"   main() is about to construct the State                 *)
(***************************************************************************)

\* The count map of a session that stands on the headword at index hi and
\* whose lookups returned what old says: the headwords up to hi that had
\* entries.
CountsOf(old, hi) ==
    LET counted == {headwords[i + 1] : i \in 0..hi} IN
    [w \in {x \in counted : old[x] > 0} |-> old[w]]

\* The checkpoint documents such a session writes: any entry of the
\* headword at hi, or one past its last entry.
DocsOf(old) ==
    UNION {{_save_history([_StateData EXCEPT
                             !.headword_index = hi,
                             !.entry_index = ei,
                             !.headword_entry_count = CountsOf(old, hi)])[1] :
              ei \in 0..(IF old[headwords[hi + 1]] > 0
                         THEN old[headwords[hi + 1]] ELSE 0)} :
           hi \in 0..(Len(headwords) - 1)}

\* The lookup results of the earlier session: those of today, or those of
\* today but for the first headword of the list.
OldDictionaries ==
    {mw} \cup {[mw EXCEPT ![headwords[i]] = n] :
                  i \in DOMAIN headwords \cap {1}, n \in 0..MaxEntries}

\* A JSON object with a key that _StateData does not have.
WithUnknownKey(doc) == [doc EXCEPT !.object = ("version" :> 1) @@ @]

\* A JSON object that has the headword_index only.
OnlyIndex(doc) ==
    [doc EXCEPT !.object = [k \in {"headword_index"} |-> @[k]]]

\* A JSON object edited by hand: the entry_index counts from the end of
\* the term, -1 for what was 0.
FromTheEnd(doc) == [doc EXCEPT !.object.entry_index = -1 - @]

CheckpointFiles ==
    {<<>>}
    \cup {<<doc>> : doc \in UNION {DocsOf(old) : old \in OldDictionaries}}
    \cup {<<Truncated(doc)>> : doc \in DocsOf(mw)}
    \cup {<<WithUnknownKey(doc)>> : doc \in DocsOf(mw)}
    \cup {<<OnlyIndex(doc)>> : doc \in DocsOf(mw)}
    \cup {<<FromTheEnd(doc)>> : doc \in DocsOf(mw)}

InitRestored ==
    /\ InitEnv
    /\ curator_history \in CheckpointFiles
    /\ pc = "start"
    /\ headword_index = _StateData.headword_index
    /\ entry_index = _StateData.entry_index
    /\ headword_entry_count = _StateData.headword_entry_count
    /\ lookup_cache = _StateData.lookup_cache
    /\ lookups = _StateData.lookups
    /\ raised = FALSE
    /\ bank = {}
    /\ presented = <<>>
    /\ last_cmd = "none"
    /\ before = [headword_index |-> 0, entry_index |-> 0, bank |-> {},
                 last_cmd |-> "none"]
    /\ resumed_from = "none"
    /\ committed = FALSE
    /\ decisions = NoDecisions

\* State(): the checkpoint is loaded and the cursor corrects itself.
Construct ==
    /\ pc = "start"
    /\ LET made == State_init(curator_history) IN
       /\ SetSelf(made.self)
       /\ raised' = made.raised
       /\ pc' = IF made.raised THEN "crashed" ELSE "object"
    /\ last_cmd' = "State"
    /\ before' = Snapshot
    /\ UNCHANGED <<env, decisions, curator_history, bank, presented, resumed_from,
                   committed>>

NextRestored ==
    \/ Construct
    \/ CommitEntry
    \/ UndoEntry
    \/ CurrentEntry

SpecRestored == InitRestored /\ [][NextRestored]_vars

(***************************************************************************)
(* The word list file read by State._load_headword_list.  A line is a      *)
(* sequence of pieces, each a blank or a word; the line ends are not       *)
(* pieces.  A text is the sequence of its pieces.                          *)
(*   pc = "file"     the file has not been read                            *)
(*   pc = "loaded"   headwords holds what _load_headword_list returned     *)
(***************************************************************************)
Whitespace == {" "}

Pieces == Whitespace \cup {"ser"}

Lines == UNION {[1..n -> Pieces] : n \in 0..MaxLineLen}

VocabFiles == UNION {[1..n -> Lines] : n \in 0..MaxLines}

\* str.lstrip()
RECURSIVE lstrip(_)
lstrip(line) ==
    IF line # <<>> /\ Head(line) \in Whitespace
    THEN lstrip(Tail(line))
    ELSE line

\* str.rstrip()
RECURSIVE rstrip(_)
rstrip(line) ==
    IF line # <<>> /\ line[Len(line)] \in Whitespace
    THEN rstrip(SubSeq(line, 1, Len(line) - 1))
    ELSE line

\* str.strip()
strip(line) == rstrip(lstrip(line))

\* [line.strip() for line in f if line.strip()]
RECURSIVE _load_headword_list(_)
_load_headword_list(f) ==
    IF f = <<>> THEN <<>>
    ELSE IF strip(Head(f)) # <<>>
         THEN <<strip(Head(f))>> \o _load_headword_list(Tail(f))
         ELSE _load_headword_list(Tail(f))

InitWordList ==
    /\ sanitized_vocab \in VocabFiles
    /\ headwords = <<>>
    /\ mw = [w \in Words |-> 0]
    /\ pc = "file"
    /\ headword_index = _StateData.headword_index
    /\ entry_index = _StateData.entry_index
    /\ headword_entry_count = _StateData.headword_entry_count
    /\ lookup_cache = _StateData.lookup_cache
    /\ lookups = _StateData.lookups
    /\ raised = FALSE
    /\ curator_history = <<>>
    /\ bank = {}
    /\ presented = <<>>
    /\ last_cmd = "none"
    /\ before = [headword_index |-> 0, entry_index |-> 0, bank |-> {},
                 last_cmd |-> "none"]
    /\ resumed_from = "none"
    /\ committed = FALSE
    /\ decisions = NoDecisions

\* self._headwords = self._load_headword_list()
LoadHeadwordList ==
    /\ pc = "file"
    /\ headwords' = _load_headword_list(sanitized_vocab)
    /\ pc' = "loaded"
    /\ UNCHANGED <<sanitized_vocab, mw, decisions, headword_index,
                   entry_index, headword_entry_count, lookup_cache, lookups,
                   curator_history, bank, presented, raised, last_cmd,
                   before, resumed_from, committed>>

NextWordList == LoadHeadwordList

SpecWordList == InitWordList /\ [][NextWordList]_vars

(***************************************************************************)
(* Vocabulary of the properties.                                           *)
(***************************************************************************)
\* The exit status of a process that has ended: 0 from sys.exit(0), 1 when
\* an exception leaves main(), the status of SIGKILL when it was killed.
ExitStatus ==
    CASE pc = "exited" -> 0
      [] pc = "crashed" -> 1
      [] pc = "killed" -> 137

InList(i) == 0 <= i /\ i < Len(headwords)

WordAt(i) == headwords[i + 1]

HasEntries(i) == InList(i) /\ mw[WordAt(i)] > 0

CurrentCount == Get(headword_entry_count, WordAt(headword_index))

\* The cursor is on the first entry of the first headword that has entries.
AtFirstEntry ==
    /\ HasEntries(headword_index)
    /\ entry_index = 0
    /\ \A j \in 0..(headword_index - 1) : ~HasEntries(j)

Position == <<headword_index, entry_index>>

CursorState == <<headword_index, entry_index, headword_entry_count>>

(***************************************************************************)
(* C1.  In every state reachable by commit_entry() and undo() calls, when  *)
(* the current headword has a nonzero count in headword_entry_count,       *)
(* 0 <= entry_index < headword_entry_count[current headword]; this         *)
(* includes the state commit_entry() leaves on the last entry of the last  *)
(* headword that has entries.                                              *)
(***************************************************************************)
C1_EntryIndexInRange ==
    (InList(headword_index) /\ CurrentCount # 0)
        => (0 <= entry_index /\ entry_index < CurrentCount)

(***************************************************************************)
(* C2.  If commit_entry() on the last entry of headword A moved the cursor *)
(* to (B, 0), skipping any headwords without entries between A and B, the  *)
(* next undo() returns the cursor to (A, count[A] - 1).                    *)
(***************************************************************************)
C2_CommittedAcrossHeadwords ==
    /\ last_cmd = "commit_entry"
    /\ ~raised
    /\ HasEntries(before.headword_index)
    /\ before.entry_index = mw[WordAt(before.headword_index)] - 1
    /\ HasEntries(headword_index)
    /\ headword_index > before.headword_index
    /\ entry_index = 0

C2_UndoReturnsToLastEntry ==
    [][(C2_CommittedAcrossHeadwords /\ UndoEntry)
          => /\ headword_index' = before.headword_index
             /\ entry_index' =
                  Get(headword_entry_count', WordAt(before.headword_index)) - 1
             /\ entry_index' = before.entry_index]_vars

\* undo() has just crossed back over a skipped headword onto the second
\* entry of the headword the commit had left.
C2_Witness ==
    /\ last_cmd = "undo"
    /\ before.last_cmd = "commit_entry"
    /\ before.entry_index = 0
    /\ before.headword_index = headword_index + 2
    /\ HasEntries(before.headword_index)
    /\ ~HasEntries(headword_index + 1)
    /\ HasEntries(headword_index)
    /\ entry_index = 1

(***************************************************************************)
(* C3.  For a headword with N > 1 entries and an entry_index i < N - 1,    *)
(* commit_entry() followed by undo() returns the cursor to the same        *)
(* headword_index and entry_index i.                                       *)
(***************************************************************************)
C3_CommittedWithinHeadword ==
    /\ last_cmd = "commit_entry"
    /\ ~raised
    /\ HasEntries(before.headword_index)
    /\ mw[WordAt(before.headword_index)] > 1
    /\ 0 <= before.entry_index
    /\ before.entry_index < mw[WordAt(before.headword_index)] - 1

C3_CommitUndoWithinHeadword ==
    [][(C3_CommittedWithinHeadword /\ UndoEntry)
          => /\ headword_index' = before.headword_index
             /\ entry_index' = before.entry_index]_vars

\* undo() has just taken back a commit made inside a headword.
C3_Witness ==
    /\ last_cmd = "undo"
    /\ before.last_cmd = "commit_entry"
    /\ before.headword_index = headword_index
    /\ before.entry_index = entry_index + 1
    /\ HasEntries(headword_index)
    /\ before.entry_index < mw[WordAt(headword_index)]

(***************************************************************************)
(* C4.  A headword whose lookup returns no entries is never the current    *)
(* headword once construction, commit_entry() or undo() has returned.      *)
(***************************************************************************)
C4_NeverOnEmptyHeadword ==
    (last_cmd \in {"none", "commit_entry", "undo"} /\ ~raised)
        => HasEntries(headword_index)

(***************************************************************************)
(* C5.  With the cursor on entry_index 0 of the first headword that has    *)
(* entries, undo() changes neither headword_index nor entry_index nor      *)
(* headword_entry_count and does not write the checkpoint file, whether    *)
(* or not headwords without entries come before it in the list.            *)
(***************************************************************************)
C5_UndoAtFirstEntryIsNoOp ==
    [][(AtFirstEntry /\ UndoEntry)
          => UNCHANGED <<headword_index, entry_index, headword_entry_count,
                         curator_history>>]_vars

C7_Scenario ==
    /\ headwords = <<"ser", "haber", "mesa">>
    /\ mw["ser"] = 2
    /\ mw["haber"] = 0
    /\ mw["mesa"] = 1

C7_At(hi, ei, dirs) ==
    /\ headword_index = hi
    /\ entry_index = ei
    /\ bank = dirs

C7_SerHaberMesa ==
    [][C7_Scenario =>
          /\ (last_cmd = "none" /\ resumed_from = "none" /\ Present)
                => /\ C7_At(0, 0, {})
                   /\ (C7_At(0, 0, {}))'
                   /\ pc' = "prompt"
                   /\ presented'[1].id = <<"ser", 1>>
          /\ (C7_At(0, 0, {}) /\ AcceptCommand)
                => (C7_At(0, 1, {<<"ser", 1>>}))'
          /\ (C7_At(0, 1, {<<"ser", 1>>}) /\ AcceptCommand)
                => (C7_At(2, 0, {<<"ser", 1>>, <<"ser", 2>>}))'
          /\ (C7_At(2, 0, {<<"ser", 1>>, <<"ser", 2>>}) /\ UndoCommand)
                => (C7_At(0, 1, {<<"ser", 1>>}))']_vars

\* The scenario after its last step: Undo has taken the cursor back from
\* (mesa, 0) over haber to (ser, 1) and removed ser:2.
C7_Witness ==
    /\ C7_Scenario
    /\ last_cmd = "undo"
    /\ before = [headword_index |-> 2, entry_index |-> 0,
                 bank |-> {<<"ser", 1>>, <<"ser", 2>>},
                 last_cmd |-> "accept"]
    /\ C7_At(0, 1, {<<"ser", 1>>})
    /\ resumed_from = "none"

C9_HasSuccessor ==
    \/ entry_index + 1 < mw[WordAt(headword_index)]
    \/ \E j \in (headword_index + 1)..(Len(headwords) - 1) : HasEntries(j)

C9_Successor ==
    IF entry_index + 1 < mw[WordAt(headword_index)]
    THEN <<headword_index, entry_index + 1>>
    ELSE <<CHOOSE j \in (headword_index + 1)..(Len(headwords) - 1) :
              /\ HasEntries(j)
              /\ \A k \in (headword_index + 1)..(j - 1) : ~HasEntries(k),
           0>>

C9_CommitPerformed ==
    /\ C9_HasSuccessor => Position' = C9_Successor
    /\ Self' = commit_entry(Self, curator_history).self
    /\ curator_history' = _save_history(Self')

C9_AcceptRejectEffects ==
    [][/\ AcceptCommand
            => /\ bank' = bank \cup {EntryId(WordAt(headword_index),
                                             entry_index)}
               /\ C9_CommitPerformed
       /\ RejectCommand
            => /\ bank' = bank
               /\ C9_CommitPerformed]_vars

\* An Accept has just stored the second entry of a headword and moved the
\* cursor over a headword without entries.
C9_Witness ==
    /\ last_cmd = "accept"
    /\ pc = "present"
    /\ before.entry_index = 1
    /\ headword_index = before.headword_index + 2
    /\ EntryId(WordAt(before.headword_index), 1) \in bank \ before.bank

(***************************************************************************)
(* C10.  If the process is killed while it waits for the next command,     *)
(* after any sequence of Accept / Reject / Undo, a restart on the same     *)
(* word list and lookup results presents the same (headword, entry) the    *)
(* killed process was presenting.                                          *)
(***************************************************************************)
C10_RestartPresentsSameEntry ==
    [][/\ pc = "killed" => pc' = "present"
       /\ (pc = "present" /\ resumed_from = "killed")
            => (pc' = "prompt" /\ presented' = presented)]_vars

\* A process restarted after a kill is presenting an entry in the middle
\* of the list, after an Undo that followed two commits.
C10_Witness ==
    /\ pc = "prompt"
    /\ resumed_from = "killed"
    /\ last_cmd = "undo"
    /\ before.last_cmd \in {"accept", "reject"}
    /\ curator_history # <<>>
    /\ headword_index > 0
    /\ bank # {}

(***************************************************************************)
(* C11.  For every CursorState that commit_entry() and undo() calls reach, *)
(* writing it to the checkpoint file with _save_history() and reading the  *)
(* file back with _load_history() into a new _StateData gives the same     *)
(* headword_index, entry_index and headword_entry_count.                   *)
(***************************************************************************)
C11_SaveLoadRoundTrip ==
    LET loaded == _load_history(_StateData, _save_history(Self))
    IN  /\ loaded.headword_index = headword_index
        /\ loaded.entry_index = entry_index
        /\ loaded.headword_entry_count = headword_entry_count

\* A commit_entry() or undo() has left the cursor past the first headword,
\* past the first entry, with two headwords counted.
C11_Witness ==
    /\ last_cmd \in {"commit_entry", "undo"}
    /\ headword_index > 0
    /\ entry_index > 0
    /\ Cardinality(DOMAIN headword_entry_count) >= 2
    /\ curator_history = _save_history(Self)

C13_UnknownKeyChangesNothing ==
    [][/\ pc' = "reprompt"
            => /\ pc \in Waiting
               /\ CursorState' = CursorState
               /\ bank' = bank
               /\ curator_history' = curator_history
               /\ presented' = presented
       /\ (pc = "reprompt" /\ pc' # "reprompt")
            => \/ /\ last_cmd' \in {"accept", "reject", "undo", "quit"}
                  /\ before'.headword_index = presented[1].headword_index
                  /\ before'.entry_index = presented[1].entry_index
               \/ pc' = "killed"]_vars

\* An unknown key was pressed in the middle of a session, with an entry in
\* the Bank and a checkpoint on disk.
C13_Witness ==
    /\ pc = "reprompt"
    /\ bank # {}
    /\ curator_history # <<>>
    /\ entry_index > 0
    /\ presented[1].entry_index = entry_index

(***************************************************************************)
(* C14.  Within one session look_up is called at most once per headword:   *)
(* the first result is cached whether it is a term with entries, a         *)
(* not-found / empty result or a failure, so a headword that was skipped   *)
(* as empty is skipped again on later passes without a new lookup.         *)
(***************************************************************************)
C14_LookedUpAtMostOnce == \A w \in Words : lookups[w] <= 1

(***************************************************************************)
(* C15.  A look_up that raises for headword h does not leave construction, *)
(* current_term(), commit_entry() or undo() as an exception: h is treated  *)
(* as a headword without entries (never cached, never counted, never       *)
(* presented), and where a later headword has entries the cursor moves on  *)
(* to the next such headword, so the rest of the list is still curated.    *)
(***************************************************************************)
C15_RaisingLookupIsSkipped ==
    /\ \A w \in Words :
          mw[w] = Raises
            => w \notin lookup_cache /\ w \notin DOMAIN headword_entry_count
    /\ pc \in Waiting
          => /\ HasEntries(headword_index)
             /\ presented[1].headword_index = headword_index
    /\ (pc = "present" /\ \E j \in headword_index..(Len(headwords) - 1) :
                             HasEntries(j))
          => HasEntries(headword_index)
    /\ pc = "crashed"
          => \A j \in (headword_index + 1)..(Len(headwords) - 1) :
                ~HasEntries(j)
    /\ (pc = "present" /\ last_cmd \in {"accept", "reject"}
        /\ headword_index > before.headword_index
        /\ \E j \in (before.headword_index + 1)..(Len(headwords) - 1) :
              HasEntries(j))
          => /\ HasEntries(headword_index)
             /\ entry_index = 0
             /\ \A j \in (before.headword_index + 1)..(headword_index - 1) :
                   ~HasEntries(j)

\* An Accept on the last entry of a headword has crossed a headword whose
\* look_up raises, called look_up for it, and stands on the headword after.
C15_Witness ==
    /\ pc = "present"
    /\ last_cmd = "accept"
    /\ headword_index = before.headword_index + 2
    /\ mw[WordAt(before.headword_index + 1)] = Raises
    /\ lookups[WordAt(before.headword_index + 1)] > 0
    /\ HasEntries(headword_index)

(***************************************************************************)
(* C16.  A lookup of headword h writes headword_entry_count[h] =           *)
(* len(entries) exactly when it returns a term with at least one entry; a  *)
(* lookup that fails or returns zero entries leaves headword_entry_count   *)
(* unchanged, a value restored from the checkpoint for h included.         *)
(***************************************************************************)
C16_CountWrittenOnSuccessOnly ==
    [][pc = "object" =>
         \A h \in Words :
            /\ h \in lookup_cache' \ lookup_cache
                 => /\ mw[h] > 0
                    /\ Get(headword_entry_count', h) = mw[h]
            /\ Get(headword_entry_count', h) # Get(headword_entry_count, h)
                 => h \in lookup_cache' \ lookup_cache
            /\ (lookups'[h] # lookups[h] /\ mw[h] <= 0)
                 => /\ h \notin lookup_cache'
                    /\ (h \in DOMAIN headword_entry_count')
                          = (h \in DOMAIN headword_entry_count)
                    /\ Get(headword_entry_count', h)
                          = Get(headword_entry_count, h)]_vars

\* A headword whose look_up finds nothing or raises has been looked up and
\* still has the count the checkpoint gave it, while another headword has
\* been looked up with success and has the count of its entries.
C16_Witness ==
    /\ pc = "object"
    /\ \E h \in Range(headwords) :
          /\ mw[h] <= 0
          /\ lookups[h] > 0
          /\ Get(headword_entry_count, h) > 0
    /\ \E h \in lookup_cache :
          /\ headword_entry_count[h] = mw[h]
          /\ lookups[h] = 1
    /\ last_cmd = "undo"

(***************************************************************************)
(* C17.  Once headword_entry_count holds a value for a headword, set by a  *)
(* lookup or restored from the checkpoint, no operation of the same        *)
(* session changes that value or removes the key: the map only grows.      *)
(***************************************************************************)
C17_CountsNeverChange ==
    [][pc = "object" =>
         \A h \in DOMAIN headword_entry_count :
            /\ h \in DOMAIN headword_entry_count'
            /\ headword_entry_count'[h] = headword_entry_count[h]]_vars

\* C17 as the code has it: no key is ever removed, and a value that a
\* lookup of this session has set never changes.  A value restored from the
\* checkpoint is replaced by the number of entries the first successful
\* lookup of that headword in this session returns.
C17_LookedUpCountsNeverChange ==
    [][pc = "object" =>
         /\ DOMAIN headword_entry_count \subseteq DOMAIN headword_entry_count'
         /\ \A h \in lookup_cache :
               /\ h \in DOMAIN headword_entry_count
               /\ headword_entry_count'[h] = headword_entry_count[h]
         /\ \A h \in DOMAIN headword_entry_count :
               headword_entry_count'[h] # headword_entry_count[h]
                 => /\ h \in lookup_cache' \ lookup_cache
                    /\ headword_entry_count'[h] = mw[h]]_vars

\* In a session started on a checkpoint, an undo() has moved back to a
\* headword that this session had not looked up, looked it up, and its
\* count is the number of its entries; the headword the cursor came from
\* was looked up before and is still counted.
C17_Witness ==
    /\ pc = "object"
    /\ last_cmd = "undo"
    /\ curator_history # <<>>
    /\ \E h \in lookup_cache :
          /\ lookups[h] = 1
          /\ headword_entry_count[h] = mw[h]
          /\ WordAt(before.headword_index) # h
          /\ WordAt(before.headword_index) \in lookup_cache
          /\ WordAt(headword_index) = h
    /\ Cardinality(lookup_cache) >= 2

(***************************************************************************)
(* C18.  If the checkpoint file exists but cannot be parsed into a         *)
(* CursorState (text that is not JSON, or an object with a key that is not *)
(* a field), loading leaves the default state, headword_index 0,           *)
(* entry_index 0 and an empty count map, with nothing taken from the file, *)
(* and startup goes on as it does without a file: the cursor is on the     *)
(* first entry of the first headword that has entries, which is the only   *)
(* headword counted.                                                       *)
(***************************************************************************)
C18_Malformed ==
    /\ curator_history # <<>>
    /\ \/ ~curator_history[1].valid_json
       \/ ~(DOMAIN curator_history[1].object \subseteq StateDataFields)

C18_MalformedCheckpointIsIgnored ==
    [][(pc = "start" /\ C18_Malformed)
         => /\ _load_history(_StateData, curator_history) = _StateData
            /\ curator_history' = curator_history
            /\ (\E i \in 0..(Len(headwords) - 1) : HasEntries(i))
                 => /\ pc' = "object"
                    /\ AtFirstEntry'
                    /\ headword_entry_count'
                         = (WordAt(headword_index') :>
                              mw[WordAt(headword_index')])]_vars

\* A State has been constructed on a malformed file that holds a position
\* past the first headword with entries and the counts of two headwords.
C18_Witness ==
    /\ pc = "object"
    /\ last_cmd = "State"
    /\ C18_Malformed
    /\ curator_history[1].object.headword_index > headword_index
    /\ Cardinality(curator_history[1].object.headword_entry_count) >= 2
    /\ AtFirstEntry

(***************************************************************************)
(* C19.  If no headword of the list has any entries, construction of the   *)
(* cursor fails with CurationError and the process ends with a non-zero    *)
(* status before the command loop presents any entry or reads any key.     *)
(***************************************************************************)
C19_NoEntriesFailsAtStartup ==
    (\A i \in 0..(Len(headwords) - 1) : ~HasEntries(i))
      => /\ pc = "crashed"
         /\ raised
         /\ ExitStatus # 0
         /\ presented = <<>>
         /\ last_cmd = "none"
         /\ bank = {}
         /\ curator_history = <<>>

\* A list of two headwords, one whose look_up raises and one whose look_up
\* finds nothing: both were looked up, and a second start has failed too.
C19_Witness ==
    /\ Len(headwords) = 2
    /\ \E i, j \in 0..1 : mw[WordAt(i)] = Raises /\ mw[WordAt(j)] = 0
    /\ \A i \in 0..1 : lookups[WordAt(i)] = 1
    /\ pc = "crashed"
    /\ raised
    /\ resumed_from = "crashed"

(***************************************************************************)
(* C20.  In a session where the user issues only Accept and Reject, the    *)
(* driver loop eventually stops: after commit_entry() on the last entry of *)
(* the last headword with entries the cursor has no current entry, the     *)
(* loop is left for good, no further entry is presented, and every entry   *)
(* presented comes later in the list than the one presented before it, so  *)
(* that none is presented a second time.                                   *)
(***************************************************************************)
\* The cursor has no current entry and no later headword has entries; the
\* loop has been left.
C20_Stopped ==
    /\ pc = "crashed"
    /\ presented = <<>>
    /\ current_entry(Self).raised
    /\ \A j \in (headword_index + 1)..(Len(headwords) - 1) : ~HasEntries(j)

\* The entry being presented comes after the entry that the last command
\* answered, in the order of the list.
C20_PresentedLater ==
    (pc \in Waiting /\ last_cmd \in {"accept", "reject"})
      => \/ presented[1].headword_index > before.headword_index
         \/ /\ presented[1].headword_index = before.headword_index
            /\ presented[1].entry_index > before.entry_index

C20_AcceptRejectSessionStops ==
    [](C20_PresentedLater /\ <>[]C20_Stopped)

\* The loop has stopped after the last entry of a list of three headwords
\* was accepted; the first two entries presented were accepted as well.
C20_Witness ==
    /\ C20_Stopped
    /\ last_cmd = "accept"
    /\ Len(headwords) = 3
    /\ before.headword_index = 2
    /\ Cardinality(bank) >= 3

(***************************************************************************)
(* C21.  When the whole word list has been curated (the last entry of the  *)
(* last headword with entries was committed), the process ends with exit   *)
(* status 0, the same status as Quit, and not with an error.               *)
(***************************************************************************)
\* The last command was an Accept or a Reject of the last entry of the last
\* headword that has entries.
C21_ListCurated ==
    /\ last_cmd \in {"accept", "reject"}
    /\ HasEntries(before.headword_index)
    /\ before.entry_index = mw[WordAt(before.headword_index)] - 1
    /\ \A j \in (before.headword_index + 1)..(Len(headwords) - 1) :
          ~HasEntries(j)

C21_CompletionExitsZero ==
    (C21_ListCurated /\ pc \in {"crashed", "exited"}) => ExitStatus = 0

(***************************************************************************)
(* C22.  In a fresh session where the user issues only Accept and Reject,  *)
(* the sequence of presented entries is the concatenation, in word-list    *)
(* order, of the entries of every headword that has entries, each          *)
(* headword's entries in lookup order: the first entry presented is the    *)
(* first entry of the first headword with entries, each later one is the   *)
(* entry that follows the one answered last, and the loop stops only when  *)
(* no entry follows.                                                       *)
(***************************************************************************)
\* An entry follows entry ei of the headword at hi.
C22_HasNext(hi, ei) ==
    \/ ei + 1 < mw[WordAt(hi)]
    \/ \E j \in (hi + 1)..(Len(headwords) - 1) : HasEntries(j)

\* The position that follows entry ei of the headword at hi.
C22_NextOf(hi, ei) ==
    IF ei + 1 < mw[WordAt(hi)]
    THEN <<hi, ei + 1>>
    ELSE <<CHOOSE j \in (hi + 1)..(Len(headwords) - 1) :
              /\ HasEntries(j)
              /\ \A k \in (hi + 1)..(j - 1) : ~HasEntries(k),
           0>>

\* The position of the first entry of the list.
C22_First ==
    <<CHOOSE j \in 0..(Len(headwords) - 1) :
         /\ HasEntries(j)
         /\ \A k \in 0..(j - 1) : ~HasEntries(k),
      0>>

C22_PresentedInListOrder ==
    [][pc = "present" =>
         LET expected == IF last_cmd = "none" THEN C22_First
                         ELSE C22_NextOf(before.headword_index,
                                         before.entry_index)
             more == IF last_cmd = "none" THEN TRUE
                     ELSE C22_HasNext(before.headword_index,
                                      before.entry_index)
         IN  IF more
             THEN /\ pc' = "prompt"
                  /\ presented'[1].headword_index = expected[1]
                  /\ presented'[1].entry_index = expected[2]
                  /\ presented'[1].id = EntryId(WordAt(expected[1]),
                                                expected[2])
             ELSE /\ pc' = "crashed"
                  /\ presented' = <<>>]_vars

\* Every entry of a list of three headwords, the middle one without
\* entries, was presented and accepted, and the loop has stopped.
C22_Witness ==
    /\ pc = "crashed"
    /\ Len(headwords) = 3
    /\ ~HasEntries(1)
    /\ mw[WordAt(0)] = 2
    /\ bank = {EntryId(WordAt(0), 0), EntryId(WordAt(0), 1),
               EntryId(WordAt(2), 0)}
    /\ before.headword_index = 2

(***************************************************************************)
(* C23.  While a State object exists, 0 <= headword_index < len(headwords):*)
(* no commit_entry() or undo(), a commit at the end of the list and an     *)
(* undo at its start included, moves headword_index outside the word list. *)
(***************************************************************************)
C23_HeadwordIndexInRange ==
    0 <= headword_index /\ headword_index < Len(headwords)

\* The last entry of the last headword was committed, and the first entry
\* of the list was undone before that.
C23_Witness ==
    /\ last_cmd = "commit_entry"
    /\ before.last_cmd = "undo"
    /\ before.headword_index = Len(headwords) - 1
    /\ before.entry_index = mw[WordAt(before.headword_index)] - 1
    /\ headword_index = Len(headwords) - 1

(***************************************************************************)
(* C24.  The headword list loaded from the word list file has one element  *)
(* per non-blank line, in file order, and each element is the first        *)
(* whitespace-delimited token of its line; any further tokens on the line  *)
(* are ignored.                                                            *)
(***************************************************************************)
\* The pieces of a text up to its first blank.
RECURSIVE C24_UpToBlank(_)
C24_UpToBlank(text) ==
    IF text = <<>> \/ Head(text) \in Whitespace THEN <<>>
    ELSE <<Head(text)>> \o C24_UpToBlank(Tail(text))

\* The first whitespace-delimited token of a line; <<>> for a blank line.
C24_FirstToken(line) == C24_UpToBlank(lstrip(line))

\* The first tokens of the non-blank lines, in file order.
RECURSIVE C24_FirstTokens(_)
C24_FirstTokens(f) ==
    IF f = <<>> THEN <<>>
    ELSE IF C24_FirstToken(Head(f)) # <<>>
         THEN <<C24_FirstToken(Head(f))>> \o C24_FirstTokens(Tail(f))
         ELSE C24_FirstTokens(Tail(f))

C24_FirstTokenOfEachLine ==
    pc = "loaded" => headwords = C24_FirstTokens(sanitized_vocab)

(***************************************************************************)
(* C25.  current_entry() raises CurationError for every entry_index        *)
(* outside 0 .. count-1 of the current term, too large or negative (a      *)
(* value restored from the checkpoint), and does not raise for an          *)
(* entry_index inside that range.                                          *)
(***************************************************************************)
C25_OutOfRangeRaises ==
    (last_cmd = "current_entry" /\ HasEntries(headword_index))
        => (raised <=> ~(0 <= entry_index
                         /\ entry_index < mw[WordAt(headword_index)]))

(***************************************************************************)
(* C26.  After any sequence of Accept, Reject and Undo commands in one     *)
(* session that started with an empty Bank, the Bank contains exactly the  *)
(* entries whose most recent decision is Accept and that lie strictly      *)
(* before the cursor in traversal order; no entry at or after the cursor   *)
(* is in the Bank.                                                         *)
(***************************************************************************)
\* The entries of the word list that lie strictly before the cursor.
C26_BeforeCursor ==
    {EntryId(WordAt(j), i) : <<j, i>> \in
        {p \in (0..(Len(headwords) - 1)) \X (0..(MaxEntries - 1)) :
            /\ HasEntries(p[1])
            /\ p[2] < mw[WordAt(p[1])]
            /\ \/ p[1] < headword_index
               \/ p[1] = headword_index /\ p[2] < entry_index}}

C26_BankIsAcceptedBeforeCursor ==
    bank = {id \in C26_BeforeCursor :
               id \in DOMAIN decisions /\ decisions[id] = "accept"}

\* Two entries were accepted and the second Accept was undone: the last
\* decision on both is Accept, the Bank holds the first only, the cursor
\* is on the second.
C26_Witness ==
    /\ last_cmd = "undo"
    /\ Cardinality(bank) = 1
    /\ Cardinality(C26_BeforeCursor) = 1
    /\ Cardinality({id \in DOMAIN decisions : decisions[id] = "accept"}) = 2

(***************************************************************************)
(* C27.  For every k >= 1 and every state from which k consecutive         *)
(* commit_entry() calls are possible, those k commits followed by k undo() *)
(* calls return the cursor to the starting (headword_index, entry_index),  *)
(* across any number of headword boundaries and skipped empty headwords.   *)
(***************************************************************************)
\* The object and the file after k calls of commit_entry(); raised when
\* one of them raised.
RECURSIVE C27_Commits(_, _, _)
C27_Commits(self, file, k) ==
    IF k = 0 THEN [self |-> self, file |-> file, raised |-> FALSE]
    ELSE LET done == commit_entry(self, file) IN
         IF done.raised THEN done
         ELSE Value({C27_Commits(again.self, again.file, k - 1) :
                       again \in {done}})

\* The object and the file after k calls of undo().
RECURSIVE C27_Undos(_, _, _)
C27_Undos(self, file, k) ==
    IF k = 0 THEN [self |-> self, file |-> file, raised |-> FALSE]
    ELSE LET back == undo(self, file) IN
         IF back.raised THEN back
         ELSE Value({C27_Undos(again.self, again.file, k - 1) :
                       again \in {back}})

C28_FailedMoveChangesNothing ==
    \A move \in {_go_to_next_headword(Self), _go_to_previous_headword(Self)} :
        ~move.ret =>
            /\ move.self.headword_index = headword_index
            /\ move.self.entry_index = entry_index

(***************************************************************************)
(* C29.  If the process is killed at any point inside an Accept command,   *)
(* an accepted entry is never lost: whenever the checkpoint file records a *)
(* position after entry e and the last decision on e was Accept, e is in   *)
(* the Bank.                                                               *)
(***************************************************************************)
\* The checkpoint file records a position after the entry with this id.
C29_CheckpointIsAfter(id) ==
    /\ curator_history # <<>>
    /\ curator_history[1].valid_json
    /\ \E j \in 0..(Len(headwords) - 1) :
          /\ WordAt(j) = id[1]
          /\ LET at == curator_history[1].object IN
             \/ j < at.headword_index
             \/ j = at.headword_index /\ id[2] - 1 < at.entry_index

C29_AcceptedEntryIsNeverLost ==
    \A id \in DOMAIN decisions :
        (decisions[id] = "accept" /\ C29_CheckpointIsAfter(id))
            => id \in bank

\* The first entry was accepted, and the process was killed inside the
\* Accept of the second one, after save_entry and before the checkpoint
\* was written: the file records the position of the second entry.
C29_Witness ==
    /\ pc = "killed"
    /\ last_cmd = "accept"
    /\ before.headword_index = 0
    /\ before.entry_index = 1
    /\ Cardinality(bank) = 2
    /\ decisions[EntryId(WordAt(0), 0)] = "accept"
    /\ C29_CheckpointIsAfter(EntryId(WordAt(0), 0))
    /\ ~C29_CheckpointIsAfter(EntryId(WordAt(0), 1))

(***************************************************************************)
(* C30.  If the word list contains at least one headword with entries,     *)
(* constructing the State from any checkpoint that an earlier session of   *)
(* this program wrote (same word list, same lookup results) does not raise *)
(* CurationError; this includes the checkpoint written by commit_entry()   *)
(* on the final entry of the list.                                         *)
(***************************************************************************)
C30_RestartNeverRaises ==
    [][(/\ pc \in {"killed", "exited", "crashed"}
        /\ curator_history # <<>>
        /\ \E j \in 0..(Len(headwords) - 1) : HasEntries(j))
          => ~raised']_vars

====
